---------------------------- MODULE Spec2Model ----------------------------
(***************************************************************************)
(* Model of the Extrusion Stakeholder Map dashboard (src/app.py): the      *)
(* load-time pipeline that builds the record store df, the status          *)
(* normaliser, and the Dash callbacks reset_filters, update_map and        *)
(* update_visible_table.                                                   *)
(*                                                                         *)
(* Text is modelled as a sequence of one-character strings, so that        *)
(* lower(), upper(), strip(), "in" and f-string formatting are computed    *)
(* character by character.  Coordinates are integers.                      *)
(***************************************************************************)
EXTENDS Integers, Sequences, FiniteSets, TLC

VARIABLES
    rawRows,        \* rows of stakeholders.csv as read by pd.read_csv
    cache,          \* geocoded_cache.json: Location -> <<lat, lon>>
    loaded,         \* "pending", then "done" once the module-level pipeline
                    \* has built df, or "error" if it raised
    df,             \* the record store (sequence of records, store order)
    statuses, cats, subcategories, countries, affils, search,
                    \* "value" of the six filter components
    bounds,         \* "bounds" of the dl.Map component
    children,       \* Output("map","children") without the fixed tile layer
    center,         \* Output("map","center")
    legend_items,   \* Output("legend","children")
    data,           \* Output("visible_table","data")
    served,         \* TRUE once the page is up and the initial calls are done
    reset_fresh,    \* TRUE from a run of reset_filters to the next filter edit
    x,              \* argument of the current normalize_status call
    result          \* value returned by the last normalize_status call

vars == <<rawRows, cache, loaded, df, statuses, cats, subcategories,
          countries, affils, search, bounds, children, center,
          legend_items, data, served, reset_fresh, x, result>>

-----------------------------------------------------------------------------
(* Bounds of the model *)

MaxFrags == 2     \* fragments concatenated into one raw status text
MaxRows  == 2     \* rows of an input table given to the load pipeline
MaxSel   == 2     \* values selected over all five categorical filters

-----------------------------------------------------------------------------
(* Text *)

\* A missing CSV cell (pandas NaN in an object column).
NaN == <<"NaN">>

\* A missing coordinate (None / float NaN in Latitude, Longitude).
None == -999

\* A component property that was never set (Python None).
Unset == <<"None">>

UpperChars == <<"A","B","C","D","E","F","G","H","I","J","K","L","M",
                "N","O","P","Q","R","S","T","U","V","W","X","Y","Z">>
LowerChars == <<"a","b","c","d","e","f","g","h","i","j","k","l","m",
                "n","o","p","q","r","s","t","u","v","w","x","y","z">>

\* Characters in code-point order, as Python compares them.
CharOrder == <<" ", ",">> \o UpperChars \o LowerChars

Chars == {CharOrder[i] : i \in 1..Len(CharOrder)}

CharRank == [c \in Chars |-> CHOOSE i \in 1..Len(CharOrder) : CharOrder[i] = c]

CharLess(a, b) == CharRank[a] < CharRank[b]

LowerOf ==
    [c \in Chars |->
        IF \E k \in 1..Len(UpperChars) : UpperChars[k] = c
        THEN LowerChars[CHOOSE k \in 1..Len(UpperChars) : UpperChars[k] = c]
        ELSE c]

UpperOf ==
    [c \in Chars |->
        IF \E k \in 1..Len(LowerChars) : LowerChars[k] = c
        THEN UpperChars[CHOOSE k \in 1..Len(LowerChars) : LowerChars[k] = c]
        ELSE c]

\* str.lower()
lower(s) == [i \in 1..Len(s) |-> LowerOf[s[i]]]

\* str.upper()
upper(s) == [i \in 1..Len(s) |-> UpperOf[s[i]]]

\* Python's  t in s  on strings: t is a contiguous substring of s.
Contains(s, t) ==
    \E i \in 1..(Len(s) - Len(t) + 1) : SubSeq(s, i, i + Len(t) - 1) = t

\* str.strip(): remove leading and trailing blanks.
strip(s) ==
    LET idx == {i \in 1..Len(s) : s[i] # " "}
    IN  IF idx = {} THEN <<>>
        ELSE SubSeq(s, CHOOSE i \in idx : \A j \in idx : i <= j,
                       CHOOSE i \in idx : \A j \in idx : i >= j)

\* Series.astype(str) on one cell: NaN becomes the text "nan".
astype_str(v) == IF v = NaN THEN <<"n","a","n">> ELSE v

-----------------------------------------------------------------------------
(* Status normaliser *)

kw_keynote     == <<"k","e","y","n","o","t","e">>
kw_general     == <<"g","e","n","e","r","a","l">>
kw_participant == <<"p","a","r","t","i","c","i","p","a","n","t">>
kw_declined    == <<"d","e","c","l","i","n","e","d">>
kw_organising  == <<"o","r","g","a","n","i","s","i","n","g">>
kw_session     == <<"s","e","s","s","i","o","n">>
kw_oral        == <<"o","r","a","l">>
kw_panel       == <<"p","a","n","e","l">>
kw_sponsor     == <<"s","p","o","n","s","o","r">>
kw_tbc         == <<"t","b","c">>
kw_to_be_confirmed ==
    <<"t","o"," ","b","e"," ","c","o","n","f","i","r","m","e","d">>

status_levels ==
    << "Keynote speaker",
       "General Participant",
       "Declined",
       "Organising Committee",
       "Session presentation",
       "Panel discussion",
       "Sponsor",
       "Invited to attend Symposium",
       "Stakeholder" >>

StatusSet == {status_levels[i] : i \in 1..Len(status_levels)}

\* A plausible slip: the session/oral rule tested before the organising rule.
normalize_status_session_first(raw) ==
    LET lx == lower(raw)
    IN  IF Contains(lx, kw_keynote) THEN "Keynote speaker"
        ELSE IF Contains(lx, kw_general) /\ Contains(lx, kw_participant)
             THEN "General Participant"
        ELSE IF Contains(lx, kw_declined) THEN "Declined"
        ELSE IF Contains(lx, kw_session) \/ Contains(lx, kw_oral)
             THEN "Session presentation"
        ELSE IF Contains(lx, kw_organising) THEN "Organising Committee"
        ELSE IF Contains(lx, kw_panel) THEN "Panel discussion"
        ELSE IF Contains(lx, kw_sponsor) THEN "Sponsor"
        ELSE IF strip(lx) \in {kw_tbc, kw_to_be_confirmed}
             THEN "Invited to attend Symposium"
        ELSE "Stakeholder"

normalize_status(raw) ==
    LET lx == lower(raw)
    IN  IF Contains(lx, kw_keynote) THEN "Keynote speaker"
        ELSE IF Contains(lx, kw_general) /\ Contains(lx, kw_participant)
             THEN "General Participant"
        ELSE IF Contains(lx, kw_declined) THEN "Declined"
        ELSE IF Contains(lx, kw_organising) THEN "Organising Committee"
        ELSE IF Contains(lx, kw_session) \/ Contains(lx, kw_oral)
             THEN "Session presentation"
        ELSE IF Contains(lx, kw_panel) THEN "Panel discussion"
        ELSE IF Contains(lx, kw_sponsor) THEN "Sponsor"
        ELSE IF strip(lx) \in {kw_tbc, kw_to_be_confirmed}
             THEN "Invited to attend Symposium"
        ELSE "Stakeholder"

\* Pieces from which raw status texts are put together; "or" and "al" make a
\* keyword appear only across a boundary.
Fragments ==
    { <<"K","e","y","n","o","t","e">>,
      <<"G","E","N","E","R","A","L">>,
      <<"p","a","r","t","i","c","i","p","a","n","t">>,
      <<"D","e","c","l","i","n","e","d">>,
      <<"O","r","g","a","n","i","s","i","n","g">>,
      <<"S","e","s","s","i","o","n">>,
      <<"o","r">>, <<"a","l">>,
      <<"P","a","n","e","l">>,
      <<"S","p","o","n","s","o","r">>,
      <<"T","B","C">>,
      <<"t","o"," ","b","e"," ","c","o","n","f","i","r","m","e","d">>,
      <<" ">>, <<"x">> }

RECURSIVE Texts(_)
Texts(n) ==
    IF n = 0 THEN {<<>>}
    ELSE Texts(n - 1) \cup {t \o f : t \in Texts(n - 1), f \in Fragments}

\* Cells of the Status column: a text, or missing.
RawStatusCells == Texts(MaxFrags) \cup {NaN}

-----------------------------------------------------------------------------
(* Load-time pipeline: stakeholders.csv + geocoded_cache.json -> df *)

\* One row of stakeholders.csv (the columns the program reads).
CsvRow(name, pos, aff, cat, sub, country, city, status) ==
    [Name |-> name, Position |-> pos, Affiliation |-> aff,
     Category |-> cat, Subcategory |-> sub,
     Country |-> country, City |-> city, Status |-> status]

\* df["RawStatus"], df["Subcategory"] and df["Status"] (lines 19, 20, 49).
Prepare(r) ==
    [Name |-> r.Name, Position |-> r.Position,
     Affiliation |-> r.Affiliation, Category |-> r.Category,
     Subcategory |-> IF r.Subcategory = NaN THEN NaN
                     ELSE strip(r.Subcategory),
     Country |-> r.Country, City |-> r.City,
     RawStatus |-> astype_str(r.Status),
     Status |-> normalize_status(astype_str(r.Status))]

\* df["Country"].notna() & (df["Country"] != "")
HasCountry(r) == r.Country # NaN /\ r.Country # <<>>

\* f"{City}, {Country}" if City is present, else Country.
Location(r) ==
    IF r.City # NaN /\ r.City # <<>>
    THEN r.City \o <<",", " ">> \o r.Country
    ELSE r.Country

\* cache.get(loc, (None, None))
cache_get(c, loc) == IF loc \in DOMAIN c THEN c[loc] ELSE <<None, None>>

\* Adds Location, Latitude and Longitude to a prepared row.
Geocode(c, r) ==
    [Name |-> r.Name, Position |-> r.Position,
     Affiliation |-> r.Affiliation, Category |-> r.Category,
     Subcategory |-> r.Subcategory, Country |-> r.Country, City |-> r.City,
     RawStatus |-> r.RawStatus, Status |-> r.Status,
     Location |-> Location(r),
     Latitude |-> cache_get(c, Location(r))[1],
     Longitude |-> cache_get(c, Location(r))[2]]

\* A slip in dropna: a row is dropped only when both coordinates are missing.
HasCoords_how_all(r) == r.Latitude # None \/ r.Longitude # None

\* df.dropna(subset=["Latitude","Longitude"]) keeps rows with both present.
HasCoords(r) == r.Latitude # None /\ r.Longitude # None

\* df["Subcategory"].str.strip() (line 20) needs a column of texts: read_csv
\* gives a column whose cells are all missing the dtype float64, and .str
\* then raises AttributeError.  A table without rows has object columns.
str_accessor_ok(rows) ==
    rows = <<>> \/ \E i \in 1..Len(rows) : rows[i].Subcategory # NaN

\* The whole pipeline; row order is kept.
BuildStore(rows, c) ==
    LET prepared  == [i \in 1..Len(rows) |-> Prepare(rows[i])]
        withCtry  == SelectSeq(prepared, HasCountry)
        geocoded  == [i \in 1..Len(withCtry) |-> Geocode(c, withCtry[i])]
    IN  SelectSeq(geocoded, HasCoords)

RECURSIVE SortSeqs(_)
\* The texts of a set in ascending order (sorted(...) of the level lists).
SortSeqs(S) ==
    IF S = {} THEN <<>>
    ELSE LET TextLess(a, b) ==
                 \E k \in 1..(Len(a) + 1) :
                     /\ k <= Len(b)
                     /\ \A j \in 1..(k - 1) : a[j] = b[j]
                     /\ \/ k = Len(a) + 1
                        \/ CharLess(a[k], b[k])
             m == CHOOSE a \in S : \A b \in S : a = b \/ TextLess(a, b)
         IN  <<m>> \o SortSeqs(S \ {m})

\* The distinct present values of one column.
Levels(d, col) == {d[i][col] : i \in 1..Len(d)} \ {NaN}

category_levels(d)    == SortSeqs(Levels(d, "Category"))
subcategory_levels(d) == SortSeqs({strip(v) : v \in Levels(d, "Subcategory")})
country_levels(d)     == SortSeqs(Levels(d, "Country"))
affiliation_levels(d) == SortSeqs(Levels(d, "Affiliation"))

-----------------------------------------------------------------------------
(* Colour palette and fixed map centre *)

status_to_colour ==
    [s \in StatusSet |->
        CASE s = "Keynote speaker"             -> "#2ecc71"
          [] s = "General Participant"         -> "#ffffb3"
          [] s = "Declined"                    -> "#e74c3c"
          [] s = "Organising Committee"        -> "#3498db"
          [] s = "Session presentation"        -> "#f1c40f"
          [] s = "Panel discussion"            -> "#9b59b6"
          [] s = "Sponsor"                     -> "#d4ac0d"
          [] s = "Invited to attend Symposium" -> "#f39c12"
          [] s = "Stakeholder"                 -> "#808080"]

MapCenter == <<20, 0>>

-----------------------------------------------------------------------------
(* Python helpers used by the callbacks *)

\* A categorical selection that was never set (Python None).
UnsetList == <<Unset>>

\* Truth value of a text or of a list of status names: None and "" / [] are
\* false.
Truthy(v) == v # Unset /\ v # <<>>

\* A slip:  if cats is not None  in place of  if cats.
TruthyList_not_none(v) == v # UnsetList

\* Truth value of a list of texts.
TruthyList(v) == v # UnsetList /\ v # <<>>

\* A slip: only the value selected last is compared.
isin_last(v, values) == values # <<>> /\ values[Len(values)] = v

\* Series.isin(values) on one cell (a missing cell equals no selectable
\* value, so it is in no selection).
isin(v, values) == \E k \in 1..Len(values) : values[k] = v

\* Series.between(lo, hi): inclusive at both ends.
between(v, lo, hi) == lo <= v /\ v <= hi

SearchCols == {"Name", "Affiliation", "Category", "Country", "City", "Position"}

\* str.contains(pat, case=False, regex=False) on one cell after astype(str):
\* pandas compares the upper-cased texts.
str_contains(cell, pat) == Contains(upper(astype_str(cell)), upper(pat))

\* The positions of a sequence of Booleans that are TRUE, ascending (df[m]).
RECURSIVE Ascending(_)
Ascending(S) ==
    IF S = {} THEN <<>>
    ELSE LET m == CHOOSE a \in S : \A b \in S : a <= b
         IN  <<m>> \o Ascending(S \ {m})

-----------------------------------------------------------------------------
(* update_map *)

\* text_mask of update_map for one row.
text_mask(r, srch) ==
    \E col \in SearchCols : str_contains(r[col], strip(srch))

\* A slip: the country filter left out of the map's mask.
map_mask_no_country(r, st, ca, su, co, af, srch) ==
    /\ Truthy(st)     => isin(r.Status, st)
    /\ TruthyList(ca) => isin(r.Category, ca)
    /\ TruthyList(su) => isin(r.Subcategory, su)
    /\ TruthyList(af) => isin(r.Affiliation, af)
    /\ Truthy(srch)   => text_mask(r, srch)

\* The mask m of update_map for one row.
map_mask(r, st, ca, su, co, af, srch) ==
    /\ Truthy(st)     => isin(r.Status, st)
    /\ TruthyList(ca) => isin(r.Category, ca)
    /\ TruthyList(su) => isin(r.Subcategory, su)
    /\ TruthyList(co) => isin(r.Country, co)
    /\ TruthyList(af) => isin(r.Affiliation, af)
    /\ Truthy(srch)   => text_mask(r, srch)

\* dff = df[m], as the ascending positions in df of the rows kept.
dff(d, st, ca, su, co, af, srch) ==
    Ascending({i \in 1..Len(d) : map_mask(d[i], st, ca, su, co, af, srch)})

\* A slip: the override applied whenever any status is selected.
override_any(st) ==
    IF Truthy(st) THEN status_to_colour[st[1]] ELSE "none"

\* The single-pill override colour, "none" when there is none.
override(st) ==
    IF Truthy(st) /\ Len(st) = 1 THEN status_to_colour[st[1]] ELSE "none"

\* A slip: the legend always walks the full enumeration, keeping the
\* selected statuses.
to_show_enumeration_order(st) ==
    IF Truthy(st)
    THEN SelectSeq(status_levels, LAMBDA s : \E k \in 1..Len(st) : st[k] = s)
    ELSE status_levels

\* to_show = statuses or status_levels
to_show(st) == IF Truthy(st) THEN st ELSE status_levels

\* One legend swatch per status of to_show, in that order.
legend(st) ==
    [k \in 1..Len(to_show(st)) |->
        [status |-> to_show(st)[k],
         backgroundColor |-> status_to_colour[to_show(st)[k]]]]

KeyLess(a, b) == a[1] < b[1] \/ (a[1] = b[1] /\ a[2] < b[2])

RECURSIVE SortKeys(_)
SortKeys(S) ==
    IF S = {} THEN <<>>
    ELSE LET m == CHOOSE a \in S : \A b \in S : a = b \/ KeyLess(a, b)
         IN  <<m>> \o SortKeys(S \ {m})

RECURSIVE FirstSeen(_, _)
\* The distinct keys of a sequence of keys in order of first appearance.
FirstSeen(ks, seen) ==
    IF ks = <<>> THEN <<>>
    ELSE IF Head(ks) \in seen THEN FirstSeen(Tail(ks), seen)
    ELSE <<Head(ks)>> \o FirstSeen(Tail(ks), seen \cup {Head(ks)})

Key(d, i) == <<d[i].Latitude, d[i].Longitude>>

\* groupby(..., sort=False): group keys in order of first appearance.
group_keys_unsorted(d, rows) ==
    FirstSeen([k \in 1..Len(rows) |-> Key(d, rows[k])],
              {key \in {Key(d, rows[k]) : k \in 1..Len(rows)} :
                   key[1] = None \/ key[2] = None})

\* The group keys of dff.groupby(["Latitude","Longitude"]): pandas sorts
\* them ascending (sort=True) and leaves out keys with a missing part
\* (dropna=True).
group_keys(d, rows) ==
    SortKeys({key \in {Key(d, rows[k]) : k \in 1..Len(rows)} :
                  key[1] # None /\ key[2] # None})

\* row0 = group.iloc[0]
row0(d, group) == d[group[1]]

min(a, b) == IF a < b THEN a ELSE b

\* colour = override if override is not None else status_to_colour[row0.Status]
colour(st, r0) ==
    IF override(st) # "none" THEN override(st) ELSE status_to_colour[r0.Status]

\* The dl.CircleMarker built for the i-th group (i counts from 0).
marker(d, key, i, rows, st) ==
    LET group == SelectSeq(rows, LAMBDA j : Key(d, j) = key)
        r0    == row0(d, group)
    IN  [id |-> <<key[1], key[2], i>>,
         center |-> key,
         radius |-> 8 + 2 * min(Len(group), 10),
         color |-> colour(st, r0),
         fillColor |-> colour(st, r0),
         tip |-> IF Len(group) = 1
                 THEN [name |-> r0.Name]
                 ELSE [people |-> Len(group)],
         popup |-> IF Len(group) = 1
                   THEN [name |-> r0.Name, position |-> r0.Position,
                         affiliation |-> r0.Affiliation,
                         place |-> astype_str(r0.City) \o <<",", " ">>
                                   \o r0.Country]
                   ELSE [here |-> Len(group),
                         items |-> [k \in 1..Len(group) |->
                                       <<d[group[k]].Name,
                                         d[group[k]].Status>>]],
         group |-> group]

\* The three outputs of update_map; children leaves out the fixed tile.
update_map(d, st, ca, su, co, af, srch) ==
    LET rows == dff(d, st, ca, su, co, af, srch)
        keys == group_keys(d, rows)
    IN  [children |-> [k \in 1..Len(keys) |->
                          marker(d, keys[k], k - 1, rows, st)],
         center |-> MapCenter,
         legend |-> legend(st)]

-----------------------------------------------------------------------------
(* update_visible_table *)

\* mask of update_visible_table's search for one row.
table_text_mask(r, srch) ==
    \E col \in SearchCols : str_contains(r[col], strip(srch))

\* A slip: the status filter left out of the table's mask.
table_mask_no_status(r, st, ca, su, co, af, srch) ==
    /\ TruthyList(ca) => isin(r.Category, ca)
    /\ TruthyList(su) => isin(r.Subcategory, su)
    /\ TruthyList(co) => isin(r.Country, co)
    /\ TruthyList(af) => isin(r.Affiliation, af)
    /\ Truthy(srch)   => table_text_mask(r, srch)

\* The mask m of update_visible_table for one row.
table_mask(r, st, ca, su, co, af, srch) ==
    /\ Truthy(st)     => isin(r.Status, st)
    /\ TruthyList(ca) => isin(r.Category, ca)
    /\ TruthyList(su) => isin(r.Subcategory, su)
    /\ TruthyList(co) => isin(r.Country, co)
    /\ TruthyList(af) => isin(r.Affiliation, af)
    /\ Truthy(srch)   => table_text_mask(r, srch)

\* The viewport restriction; bounds = <<sw, ne>>, or <<>> when the map has
\* reported none (None and [] are both false in  if bounds).
in_bounds(r, b) ==
    b # <<>> => /\ between(r.Latitude, b[1][1], b[2][1])
                /\ between(r.Longitude, b[1][2], b[2][2])

\* One row of the table: the seven displayed columns.
table_row(r) ==
    [Name |-> r.Name, Position |-> r.Position,
     Affiliation |-> r.Affiliation, Country |-> r.Country,
     Category |-> r.Category, Subcategory |-> r.Subcategory,
     Status |-> r.Status]

\* vis: the positions in df of the rows the table shows, in store order.
vis(d, b, st, ca, su, co, af, srch) ==
    Ascending({i \in 1..Len(d) :
                  /\ table_mask(d[i], st, ca, su, co, af, srch)
                  /\ in_bounds(d[i], b)})

update_visible_table(d, b, st, ca, su, co, af, srch) ==
    LET v == vis(d, b, st, ca, su, co, af, srch)
    IN  [k \in 1..Len(v) |-> table_row(d[v[k]])]

-----------------------------------------------------------------------------
(* Inputs *)

Al == CsvRow(<<"A","l">>, <<"P","I">>, <<"U">>, <<"A">>, <<" ","X"," ">>,
             <<"F","R">>, <<"P">>, <<"K","e","y","n","o","t","e">>)
Bo == CsvRow(<<"B","o">>, NaN, NaN, <<"B">>, NaN,
             <<"F","R">>, <<"P">>, <<"s","p","o","n","s","o","r">>)
Cy == CsvRow(<<"C","y">>, <<"P","I">>, <<"V">>, <<"A">>, <<"Y">>,
             <<"A","U">>, NaN, NaN)
Di == CsvRow(<<"D","i">>, NaN, <<"U">>, NaN, <<"Y">>,
             <<"F","R">>, <<"L">>, <<"T","B","C">>)
\* Rows with no country, an empty country, a location the cache lacks, a
\* location cached without coordinates, and an empty city.
NoCountry    == CsvRow(<<"E","d">>, NaN, NaN, <<"A">>, NaN,
                       NaN, <<"P">>, <<"o","r","a","l">>)
EmptyCountry == CsvRow(<<"F","y">>, NaN, NaN, <<"A">>, NaN,
                       <<>>, <<"P">>, NaN)
NotCached    == CsvRow(<<"G","u">>, NaN, NaN, <<"B">>, NaN,
                       <<"F","R">>, <<"Q">>, <<"P","a","n","e","l">>)
NullCached   == CsvRow(<<"H","a">>, NaN, NaN, <<"B">>, NaN,
                       <<"A","U">>, <<"M">>, NaN)
EmptyCity    == CsvRow(<<"I","k">>, NaN, NaN, <<"B">>, NaN,
                       <<"A","U">>, <<>>, <<"D","e","c","l","i","n","e","d">>)

loc_P_FR == <<"P",","," ","F","R">>
loc_L_FR == <<"L",","," ","F","R">>
loc_M_AU == <<"M",","," ","A","U">>
loc_AU   == <<"A","U">>

\* A geocode cache as one-off-geocode.py writes it, with one location that
\* could not be geocoded.
GeoCache ==
    [loc \in {loc_P_FR, loc_L_FR, loc_M_AU, loc_AU} |->
        CASE loc = loc_P_FR -> <<30, 0>>
          [] loc = loc_L_FR -> <<30, 5>>
          [] loc = loc_AU   -> <<60, -5>>
          [] loc = loc_M_AU -> <<None, None>>]

\* Caches that know only some of the locations, or half a coordinate.
Caches ==
    {[loc \in K |-> GeoCache[loc]] : K \in SUBSET DOMAIN GeoCache}
    \cup {[loc \in {loc_P_FR, loc_L_FR, loc_AU} |->
              CASE loc = loc_P_FR -> <<30, None>>
                [] loc = loc_L_FR -> <<30, 5>>
                [] loc = loc_AU   -> <<None, 0>>]}

RECURSIVE Tables(_, _)
\* Input tables of at most n rows over a pool of rows.
Tables(pool, n) ==
    IF n = 0 THEN {<<>>}
    ELSE Tables(pool, n - 1)
         \cup {Append(t, r) : t \in Tables(pool, n - 1), r \in pool}

RECURSIVE Orderings(_)
\* The input tables that list some of the rows of a pool once each, in any
\* order.
Orderings(pool) ==
    {<<>>} \cup UNION {{<<r>> \o t : t \in Orderings(pool \ {r})} : r \in pool}

ServedRows == {Al, Bo, Cy}
LoadRows   == ServedRows \cup {Di, NoCountry, EmptyCountry, NotCached,
                               NullCached, EmptyCity}

\* Texts typed into the search box.
SearchTexts == {<<>>, <<" ","a","l"," ">>, <<"N","A">>}

\* Viewports the map reports: <<southwest, northeast>>.
Viewports == {<< <<0, -10>>, <<50, 10>> >>, << <<30, -5>>, <<60, 0>> >>}

-----------------------------------------------------------------------------
(* The dashboard as a state machine *)

(***************************************************************************)
(* A user event changes one component property; Dash then runs every       *)
(* callback that has the property as an Input, with the current component  *)
(* values, and stores what it returns in its Outputs.  The callbacks are   *)
(* functions of the component values and of df alone, so an event and the  *)
(* callbacks it triggers are one step.                                     *)
(***************************************************************************)

\* Component values of the layout (value=[] for the five selections, no
\* value for the search box, children=[] and center=[20,0] for the map).
LayoutDefaults ==
    /\ statuses = <<>> /\ cats = <<>> /\ subcategories = <<>>
    /\ countries = <<>> /\ affils = <<>>
    /\ search = Unset
    /\ bounds = <<>>
    /\ children = <<>>
    /\ center = MapCenter
    /\ legend_items = <<>>
    /\ data = <<>>
    /\ served = FALSE
    /\ reset_fresh = FALSE

NoCall == x = <<>> /\ result = ""

\* The module has been imported without an error: df is built, nothing is
\* rendered yet.
Init ==
    /\ rawRows \in {t \in Orderings(ServedRows) : str_accessor_ok(t)}
    /\ cache = GeoCache
    /\ loaded = "done"
    /\ df = BuildStore(rawRows, cache)
    /\ LayoutDefaults
    /\ NoCall

Selected ==
    Len(statuses) + Len(cats) + Len(subcategories) + Len(countries)
    + Len(affils)

\* A click on an option of a checklist or dropdown: the value is appended
\* to the selection, or removed from it.
Toggle(sel, v) ==
    IF \E k \in 1..Len(sel) : sel[k] = v
    THEN SelectSeq(sel, LAMBDA e : e # v)
    ELSE Append(sel, v)

CanToggle(sel, v) == (\E k \in 1..Len(sel) : sel[k] = v) \/ Selected < MaxSel

\* Dash runs update_map on the new component values.
RunUpdateMap ==
    LET out == update_map(df, statuses', cats', subcategories', countries',
                          affils', search')
    IN  /\ children' = out.children
        /\ center' = out.center
        /\ legend_items' = out.legend

\* Dash runs update_visible_table on the new component values.
RunUpdateVisibleTable ==
    data' = update_visible_table(df, bounds', statuses', cats',
                                 subcategories', countries', affils',
                                 search')

\* A filter input changed: both callbacks read it.
FilterEdited ==
    /\ UNCHANGED <<rawRows, cache, loaded, df, bounds, served, x, result>>
    /\ RunUpdateMap
    /\ RunUpdateVisibleTable
    /\ reset_fresh' = FALSE

\* The browser opens the page: Dash makes the initial call of update_map
\* and update_visible_table (reset_filters has prevent_initial_call).
PageLoad ==
    /\ ~served
    /\ served' = TRUE
    /\ UNCHANGED <<statuses, cats, subcategories, countries, affils, search,
                   bounds>>
    /\ RunUpdateMap
    /\ RunUpdateVisibleTable
    /\ UNCHANGED <<rawRows, cache, loaded, df, reset_fresh, x, result>>

StatusSelect ==
    \E k \in 1..Len(status_levels) :
        /\ served
        /\ CanToggle(statuses, status_levels[k])
        /\ statuses' = Toggle(statuses, status_levels[k])
        /\ UNCHANGED <<cats, subcategories, countries, affils, search>>
        /\ FilterEdited

CategorySelect ==
    \E k \in 1..Len(category_levels(df)) :
        /\ served
        /\ CanToggle(cats, category_levels(df)[k])
        /\ cats' = Toggle(cats, category_levels(df)[k])
        /\ UNCHANGED <<statuses, subcategories, countries, affils, search>>
        /\ FilterEdited

SubcategorySelect ==
    \E k \in 1..Len(subcategory_levels(df)) :
        /\ served
        /\ CanToggle(subcategories, subcategory_levels(df)[k])
        /\ subcategories' = Toggle(subcategories, subcategory_levels(df)[k])
        /\ UNCHANGED <<statuses, cats, countries, affils, search>>
        /\ FilterEdited

CountrySelect ==
    \E k \in 1..Len(country_levels(df)) :
        /\ served
        /\ CanToggle(countries, country_levels(df)[k])
        /\ countries' = Toggle(countries, country_levels(df)[k])
        /\ UNCHANGED <<statuses, cats, subcategories, affils, search>>
        /\ FilterEdited

AffiliationSelect ==
    \E k \in 1..Len(affiliation_levels(df)) :
        /\ served
        /\ CanToggle(affils, affiliation_levels(df)[k])
        /\ affils' = Toggle(affils, affiliation_levels(df)[k])
        /\ UNCHANGED <<statuses, cats, subcategories, countries, search>>
        /\ FilterEdited

GlobalSearch ==
    \E t \in SearchTexts :
        /\ served
        /\ t # search
        /\ search' = t
        /\ UNCHANGED <<statuses, cats, subcategories, countries, affils>>
        /\ FilterEdited

\* The user pans or zooms: only update_visible_table reads map.bounds.
MapBounds ==
    \E b \in Viewports :
        /\ served
        /\ b # bounds
        /\ bounds' = b
        /\ UNCHANGED <<statuses, cats, subcategories, countries, affils,
                       search>>
        /\ RunUpdateVisibleTable
        /\ UNCHANGED <<rawRows, cache, loaded, df, children, center,
                       legend_items, served, reset_fresh, x, result>>

\* A slip: the search box left as it is by the reset.
reset_filters_keeps_search == << <<>>, <<>>, <<>>, <<>>, <<>>, search >>

\* reset_filters: return [], [], [], [], [], ""
reset_filters == << <<>>, <<>>, <<>>, <<>>, <<>>, <<>> >>

\* A click on "Reset filters": reset_filters runs, and its six outputs are
\* inputs of update_map and update_visible_table, which run next.
ResetClick ==
    /\ served
    /\ statuses' = reset_filters[1]
    /\ cats' = reset_filters[2]
    /\ subcategories' = reset_filters[3]
    /\ countries' = reset_filters[4]
    /\ affils' = reset_filters[5]
    /\ search' = reset_filters[6]
    /\ UNCHANGED <<rawRows, cache, loaded, df, bounds, served, x, result>>
    /\ RunUpdateMap
    /\ RunUpdateVisibleTable
    /\ reset_fresh' = TRUE

Next ==
    \/ PageLoad
    \/ StatusSelect \/ CategorySelect \/ SubcategorySelect
    \/ CountrySelect \/ AffiliationSelect \/ GlobalSearch
    \/ MapBounds \/ ResetClick

Spec == Init /\ [][Next]_vars

-----------------------------------------------------------------------------
(* The load-time pipeline on its own *)

InitLoad ==
    /\ rawRows \in Tables(LoadRows, MaxRows)
    /\ cache \in Caches
    /\ loaded = "pending"
    /\ df = <<>>
    /\ LayoutDefaults
    /\ NoCall

\* Lines 18-76 of app.py, run once when the module is imported.
LoadData ==
    /\ loaded = "pending"
    /\ IF str_accessor_ok(rawRows)
       THEN df' = BuildStore(rawRows, cache) /\ loaded' = "done"
       ELSE df' = df /\ loaded' = "error"
    /\ UNCHANGED <<rawRows, cache, statuses, cats, subcategories, countries,
                   affils, search, bounds, children, center, legend_items,
                   data, served, reset_fresh, x, result>>

NextLoad == LoadData

SpecLoad == InitLoad /\ [][NextLoad]_vars

-----------------------------------------------------------------------------
(* The status normaliser on its own *)

InitNormalize ==
    /\ rawRows = <<>> /\ cache = GeoCache /\ loaded = "pending" /\ df = <<>>
    /\ LayoutDefaults
    /\ NoCall

\* df["RawStatus"].apply(normalize_status) on one cell of the Status column.
ApplyNormalize ==
    \E cell \in RawStatusCells :
        /\ x' = astype_str(cell)
        /\ result' = normalize_status(astype_str(cell))
        /\ UNCHANGED <<rawRows, cache, loaded, df, statuses, cats,
                       subcategories, countries, affils, search, bounds,
                       children, center, legend_items, data, served,
                       reset_fresh>>

NextNormalize == ApplyNormalize

SpecNormalize == InitNormalize /\ [][NextNormalize]_vars

-----------------------------------------------------------------------------
(* Properties *)

\* The rows of df behind one marker.
MembersOf(mk) == {mk.group[j] : j \in 1..Len(mk.group)}

\* The rows of df behind all the markers of the map.
MapMembers == UNION {MembersOf(children[k]) : k \in 1..Len(children)}

\* The number of records the map shows, group by group.
RECURSIVE CountMembers(_)
CountMembers(ms) ==
    IF ms = <<>> THEN 0 ELSE Len(Head(ms).group) + CountMembers(Tail(ms))

\* The coordinates of a record lie in the viewport, edges included.
InViewport(r) ==
    \/ bounds = <<>>
    \/ /\ bounds[1][1] <= r.Latitude  /\ r.Latitude  <= bounds[2][1]
       /\ bounds[1][2] <= r.Longitude /\ r.Longitude <= bounds[2][2]

\* The table rows of a set of rows of df, in store order.
RowsOf(S) == [k \in 1..Cardinality(S) |-> table_row(df[Ascending(S)[k]])]

NoSelection ==
    /\ statuses = <<>> /\ cats = <<>> /\ subcategories = <<>>
    /\ countries = <<>> /\ affils = <<>>

\* C1: the map and the table agree.  A record the table's filters keep is
\* behind exactly one marker of the map, any other record behind none, and
\* the table lists exactly the records behind the markers whose marker lies
\* in the viewport, edges included (all of them when the map has reported
\* no bounds).
C1_MapTableAgree ==
    served =>
        /\ \A i \in 1..Len(df) :
               Cardinality({k \in 1..Len(children) :
                                i \in MembersOf(children[k])})
               = IF table_mask(df[i], statuses, cats, subcategories,
                               countries, affils, search)
                 THEN 1 ELSE 0
        /\ \A k \in 1..Len(children) : \A i \in MembersOf(children[k]) :
               children[k].center = <<df[i].Latitude, df[i].Longitude>>
        /\ data = RowsOf({i \in MapMembers : InViewport(df[i])})

\* A filter is active, the viewport cuts off some of the records the map
\* shows and keeps others.
C1_Witness ==
    /\ served
    /\ Selected > 0
    /\ bounds # <<>>
    /\ Len(data) > 0
    /\ Len(data) < Cardinality(MapMembers)

\* C2 as stated: after reset_filters the map shows every stored record, the
\* legend every status and the table every stored record.
C2_ResetShowsWholeStore ==
    reset_fresh =>
        /\ MapMembers = 1..Len(df)
        /\ [k \in 1..Len(legend_items) |-> legend_items[k].status]
               = status_levels
        /\ data = RowsOf(1..Len(df))

\* C2 amended: after reset_filters the map shows every stored record, the
\* legend every status, and the table every stored record whose coordinates
\* lie in the current viewport (every stored record when the map has
\* reported no bounds).
C2_ResetShowsStoreInViewport ==
    reset_fresh =>
        /\ MapMembers = 1..Len(df)
        /\ [k \in 1..Len(legend_items) |-> legend_items[k].status]
               = status_levels
        /\ data = RowsOf({i \in 1..Len(df) : InViewport(df[i])})

\* reset_filters has run with a viewport that leaves a stored record out.
C2_Witness ==
    /\ reset_fresh
    /\ bounds # <<>>
    /\ Len(data) > 0
    /\ Len(data) < Len(df)

\* A step adds one value to one categorical selection.
AddsValue == served /\ Selected' = Selected + 1

\* A step adds the first value to a selection that was empty.
AddsFirstValue ==
    /\ AddsValue
    /\ \/ statuses = <<>> /\ statuses' # <<>>
       \/ cats = <<>> /\ cats' # <<>>
       \/ subcategories = <<>> /\ subcategories' # <<>>
       \/ countries = <<>> /\ countries' # <<>>
       \/ affils = <<>> /\ affils' # <<>>

\* C3 as stated: adding one more value to the selection of a categorical
\* dimension never increases the number of records in the filtered set.
C3_AddingNeverIncreases ==
    [][AddsValue => CountMembers(children') <= CountMembers(children)]_vars

\* C3 amended: adding a value to a categorical dimension whose selection is
\* empty never increases the number of records in the filtered set, and
\* adding a value to a selection that is not empty never decreases it.
C3_FirstValueNarrowsFurtherValuesWiden ==
    [][/\ AddsFirstValue
          => CountMembers(children') <= CountMembers(children)
       /\ (AddsValue /\ ~AddsFirstValue)
          => CountMembers(children') >= CountMembers(children)]_vars

\* Two values are selected in one dimension and the map shows more than one
\* record: the second value brought records back.
C3_Witness ==
    /\ served
    /\ \/ Len(statuses) = 2 \/ Len(cats) = 2 \/ Len(countries) = 2
    /\ CountMembers(children) = 2
    /\ Len(children) = 2

\* C4: with no selection in any dimension, an empty or unset search and no
\* bounds, the map's filtered set and the table are the whole store in
\* store order.
C4_EmptyFilterIsIdentity ==
    /\ (served /\ NoSelection /\ search \in {Unset, <<>>} /\ bounds = <<>>)
       => /\ data = [i \in 1..Len(df) |-> table_row(df[i])]
          /\ MapMembers = 1..Len(df)
          /\ \A k \in 1..Len(children) :
                 \A a, b \in 1..Len(children[k].group) :
                     a < b => children[k].group[a] < children[k].group[b]
    /\ \A srch \in {Unset, <<>>} :
          /\ dff(df, Unset, UnsetList, UnsetList, UnsetList, UnsetList, srch)
                 = [i \in 1..Len(df) |-> i]
          /\ dff(df, <<>>, <<>>, <<>>, <<>>, <<>>, srch)
                 = [i \in 1..Len(df) |-> i]
          /\ vis(df, <<>>, Unset, UnsetList, UnsetList, UnsetList, UnsetList,
                 srch)
                 = [i \in 1..Len(df) |-> i]

\* The filters were reset on a store of three records and the table lists
\* all three.
C4_Witness ==
    /\ served /\ NoSelection /\ search = <<>> /\ bounds = <<>>
    /\ Len(df) = 3
    /\ Len(data) = 3

\* The nine rules of the normaliser on the lower-cased text, in order.
RuleMatches(t) ==
    << Contains(lower(t), kw_keynote),
       Contains(lower(t), kw_general) /\ Contains(lower(t), kw_participant),
       Contains(lower(t), kw_declined),
       Contains(lower(t), kw_organising),
       Contains(lower(t), kw_session) \/ Contains(lower(t), kw_oral),
       Contains(lower(t), kw_panel),
       Contains(lower(t), kw_sponsor),
       strip(lower(t)) = kw_tbc \/ strip(lower(t)) = kw_to_be_confirmed,
       TRUE >>

Dropped(r) ==
    \/ r.Country = NaN
    \/ r.Country = <<>>
    \/ Location(r) \notin DOMAIN cache
    \/ cache[Location(r)][1] = None
    \/ cache[Location(r)][2] = None

FirstMember(mk) == CHOOSE i \in MembersOf(mk) : \A j \in MembersOf(mk) : i <= j

\* C7: with exactly one status selected every marker has that status's
\* colour; otherwise every marker has the colour of the status of its first
\* member in store order.
C7_MarkerColour ==
    served =>
        \A k \in 1..Len(children) :
            /\ children[k].color =
                   IF Len(statuses) = 1
                   THEN status_to_colour[statuses[1]]
                   ELSE status_to_colour[df[FirstMember(children[k])].Status]
            /\ children[k].fillColor = children[k].color

\* Two statuses are selected, the later-selected one first in the store, and
\* a marker stands for two records with different statuses.
C7_Witness ==
    /\ served
    /\ Len(statuses) = 2
    /\ \E k \in 1..Len(children) :
           /\ Len(children[k].group) = 2
           /\ df[children[k].group[1]].Status = statuses[2]
           /\ df[children[k].group[2]].Status = statuses[1]

\* The position of a status in the enumeration.
LevelIndex(s) == CHOOSE k \in 1..Len(status_levels) : status_levels[k] = s

\* The swatches the legend should have.
LegendStatuses == IF statuses # <<>>
    THEN {statuses[k] : k \in 1..Len(statuses)}
    ELSE StatusSet

\* C8 as stated: one swatch per selected status, or per status of the
\* enumeration when none is selected, each with its colour, and always in
\* enumeration order.
C8_LegendInEnumerationOrder ==
    served =>
        /\ {legend_items[k].status : k \in 1..Len(legend_items)}
               = LegendStatuses
        /\ Len(legend_items) = Cardinality(LegendStatuses)
        /\ \A k \in 1..Len(legend_items) :
               legend_items[k].backgroundColor
                   = status_to_colour[legend_items[k].status]
        /\ \A a, b \in 1..Len(legend_items) :
               a < b => LevelIndex(legend_items[a].status)
                            < LevelIndex(legend_items[b].status)

\* C8 amended: one swatch per selected status, or per status of the
\* enumeration when none is selected, each with its colour; the swatches of
\* a selection appear in the order of the selection, and only without a
\* selection in enumeration order.
C8_LegendInSelectionOrder ==
    served =>
        /\ Len(legend_items) = Cardinality(LegendStatuses)
        /\ \A k \in 1..Len(legend_items) :
               /\ legend_items[k].status
                      = IF statuses # <<>> THEN statuses[k]
                        ELSE status_levels[k]
               /\ legend_items[k].backgroundColor
                      = status_to_colour[legend_items[k].status]

\* Two statuses are selected, the later one of the enumeration first.
C8_Witness ==
    /\ served
    /\ Len(statuses) = 2
    /\ LevelIndex(statuses[1]) > LevelIndex(statuses[2])
    /\ Len(legend_items) = 2

\* No record of the store passes the filters of update_map.
NothingMatches ==
    \A i \in 1..Len(df) :
        ~map_mask(df[i], statuses, cats, subcategories, countries, affils,
                  search)

\* C9 as stated: when the filters match no record the map has no markers,
\* the legend no swatches and the table no rows.
C9_AllThreeEmpty ==
    (served /\ Len(df) > 0 /\ NothingMatches) =>
        /\ children = <<>>
        /\ legend_items = <<>>
        /\ data = <<>>

\* C9 amended: when the filters match no record the map has no markers and
\* the table no rows; the legend does not depend on the records and still
\* has one swatch per selected status, or nine when no status is selected.
C9_MapAndTableEmpty ==
    (served /\ NothingMatches) =>
        /\ children = <<>>
        /\ data = <<>>
        /\ Len(legend_items)
               = IF statuses = <<>> THEN Len(status_levels)
                 ELSE Len(statuses)

\* The store has records, a selection is active and no record passes.
C9_Witness ==
    /\ served
    /\ Len(df) > 0
    /\ Selected > 0
    /\ NothingMatches
    /\ children = <<>>
    /\ data = <<>>

\* The coordinates of the records the map shows, in store order.
ShownKeys ==
    [k \in 1..Cardinality(MapMembers) |->
        <<df[Ascending(MapMembers)[k]].Latitude,
          df[Ascending(MapMembers)[k]].Longitude>>]

\* C10 as stated: the markers are in the order in which their coordinates
\* first appear among the filtered records in store order.
C10_GroupsInFirstSeenOrder ==
    served =>
        [k \in 1..Len(children) |-> children[k].center]
            = FirstSeen(ShownKeys, {})

\* C10 amended: the markers are in ascending order of latitude, and of
\* longitude for equal latitudes, wherever their records are in the store;
\* the i-th marker carries the index i - 1 in its id.
C10_GroupsInCoordinateOrder ==
    served =>
        /\ \A k \in 1..(Len(children) - 1) :
               \/ children[k].center[1] < children[k + 1].center[1]
               \/ /\ children[k].center[1] = children[k + 1].center[1]
                  /\ children[k].center[2] < children[k + 1].center[2]
        /\ \A k \in 1..Len(children) :
               children[k].id
                   = <<children[k].center[1], children[k].center[2], k - 1>>

\* The first marker stands for a record that comes later in the store than
\* the record of the second marker.
C10_Witness ==
    /\ served
    /\ Len(children) = 2
    /\ FirstMember(children[1]) > FirstMember(children[2])

\* The search box holds a text that is not empty once trimmed.
SearchActive == search # Unset /\ strip(search) # <<>>

\* A field of the record that is not null contains the text, letter case
\* aside.
NonNullFieldContains(r, term) ==
    \E col \in SearchCols :
        /\ r[col] # NaN
        /\ Contains(upper(r[col]), upper(term))

\* The rows of df the table lists: those that pass the table's filters and
\* lie in the viewport.
TableMembers ==
    {i \in 1..Len(df) :
        /\ table_mask(df[i], statuses, cats, subcategories, countries,
                      affils, search)
        /\ InViewport(df[i])}

\* C11 as stated: in a free-text search a null field never produces a match.
\* Whenever the trimmed search text is not empty, every record behind a
\* marker of the map and every record the table lists has a non-null field
\* among name, affiliation, category, country, city and position that
\* contains the text as a literal substring, letter case aside; a record
\* whose only candidates are null fields is shown by neither.
C11_NullFieldNeverMatches ==
    (served /\ SearchActive) =>
        /\ \A i \in MapMembers : NonNullFieldContains(df[i], strip(search))
        /\ data = RowsOf(TableMembers)
        /\ \A i \in TableMembers : NonNullFieldContains(df[i], strip(search))

\* A search is active and the map and the table both show a record of which
\* no non-null field contains the text: it is kept through a null field
\* alone, whose text after astype(str) is "nan".
C11_Witness ==
    /\ served
    /\ SearchActive
    /\ \E i \in MapMembers \cap TableMembers :
           /\ ~NonNullFieldContains(df[i], strip(search))
           /\ \E col \in SearchCols :
                  /\ df[i][col] = NaN
                  /\ Contains(<<"N","A","N">>, upper(strip(search)))
    /\ data = RowsOf(TableMembers)
    /\ Len(data) > 0

=============================================================================
